---- MODULE Spec2Model ----
(***************************************************************************)
(* Model of packages/aws-appsync-subscription-link/src/index.ts:           *)
(* createSubscriptionHandshakeLink builds a split link that routes         *)
(* subscription operations to a subscription sub-chain and every other     *)
(* operation to the results-fetcher link.                                  *)
(*                                                                         *)
(* Variables objects live in a heap so that "a new object is assigned to   *)
(* operation.variables" and "the caller's object is modified in place" are *)
(* different behaviours of the model, as they are in JavaScript.           *)
(***************************************************************************)
EXTENDS Integers, Sequences, FiniteSets, TLC

\* ------------------------------------------------------------------------
\* Bounds
\* ------------------------------------------------------------------------
\* Number of operations dispatched through one link instance.
NumOps == 2
\* Times one operation is handed to the link (the first dispatch and retries).
MaxDispatches == 2

Ops == 1..NumOps

\* ------------------------------------------------------------------------
\* Values
\* ------------------------------------------------------------------------
\* The reserved variables key, imported from ./subscription-handshake-link,
\* which sets its value; here any string that is no ordinary variable name.
CONTROL_EVENTS_KEY == "@@controlEvents"

\* JavaScript's undefined, as a value a key can be mapped to.
UNDEF == "undefined"

\* The mapping with no key.
EmptyMap == [k \in {} |-> UNDEF]

\* The variables mappings operations are built from: the ordinary key "a"
\* without the reserved key, with the reserved key mapped to a defined
\* value, and with the reserved key present and mapped to undefined.
WithControlEvents == ("a" :> "1") @@ (CONTROL_EVENTS_KEY :> "{x:true}")

Mappings ==
    { [a |-> "1"],
      WithControlEvents,
      ("a" :> "1") @@ (CONTROL_EVENTS_KEY :> UNDEF) }

\* operation.variables is a reference to a heap object (> 0), or is absent:
\* undefined (0) or null (-1).
RefUndefined == 0
RefNull == -1

\* Definitions of a document: an operation of one of the three types, or a
\* fragment.
OperationDefinition(type) == [kind |-> "OperationDefinition", operation |-> type]
FragmentDefinition == [kind |-> "FragmentDefinition", operation |-> UNDEF]

\* A document is a sequence of definitions.  The documents dispatched: one
\* of each operation type (the mutation after a fragment) and a document
\* holding only a fragment.
SubscriptionDocuments == { << OperationDefinition("subscription") >> }

OtherDocuments ==
    { << OperationDefinition("query") >>,
      << FragmentDefinition, OperationDefinition("mutation") >>,
      << FragmentDefinition >> }

Documents == SubscriptionDocuments \cup OtherDocuments

\* The operations dispatched with a variables object of their own: a
\* subscription with each of the mappings; every other document with the
\* mapping that holds a control event.
Requests ==
    { [query |-> d, variables |-> m] : d \in SubscriptionDocuments, m \in Mappings }
    \cup { [query |-> d, variables |-> WithControlEvents] : d \in OtherDocuments }

\* First arguments of the factory: a bare URL string or a configuration object.
Configs ==
    { [typeof |-> "string", value |-> "https://example/graphql"],
      [typeof |-> "object", url |-> "wss://example/realtime", region |-> "us-east-1"] }

\* Second argument of the factory: a caller-supplied link, or none.
NoLink == [type |-> "none"]
CustomLink == [type |-> "custom"]
FetcherArgs == { NoLink, CustomLink }

VARIABLES
    args,       \* the arguments the factory was called with
    link,       \* the link the factory returned, or NoLink before the call
    constructed,\* the link objects the factory constructed
    heap,       \* variables objects: the mapping at each allocated reference
    query,      \* query[o]: the document of operation o
    variables,  \* variables[o]: operation.variables, a reference
    context,    \* context[o]: the operation's context (metadata by name)
    pc,         \* pc[o]: where operation o is in the pipeline
    stage,      \* stage[o]: index of the current link of the subscription chain
    pending,    \* pending[o]: value the inner link of the current stage emitted
    seen,       \* seen[o]: what each link saw when it received operation o
    emitted,    \* emitted[o]: values the control-event link has emitted for o
    outcome,    \* outcome[o]: what the caller's result stream delivered
    original,   \* original[o]: operation.variables as it was at dispatch
    raised,     \* raised[o]: the error a collaborator raised for o, if any
    probeOpen,  \* operations whose "subsInfo" stage holds an open subscription
                \* on the results-fetcher
    dispatches, \* dispatches[o]: times operation o was handed to the link
    closed      \* operations whose result stream the caller has unsubscribed

vars == << args, link, constructed, heap, query, variables, context, pc, stage,
           pending, seen, emitted, outcome, original, raised, probeOpen,
           dispatches, closed >>

NoValue == [type |-> "none"]

\* ------------------------------------------------------------------------
\* Pure helpers
\* ------------------------------------------------------------------------
\* References of the objects allocated for operation o: the variables object
\* a caller builds for it and the rest object the control-event link
\* builds.  An object that is allocated gets a reference no other object has;
\* which one it gets has no effect.
VariablesRef(o) == 2 * o - 1
RestRef(o) == 2 * o

\* Property read: obj[k], undefined when k is not a key of obj.
Get(m, k) == IF k \in DOMAIN m THEN m[k] ELSE UNDEF

\* getMainDefinition(query): the first operation definition of the document,
\* otherwise its first fragment definition.
RECURSIVE FirstOfKind(_, _, _)
FirstOfKind(doc, kind, i) ==
    IF i > Len(doc) THEN 0
    ELSE IF doc[i].kind = kind THEN i
    ELSE FirstOfKind(doc, kind, i + 1)

getMainDefinition(doc) ==
    IF FirstOfKind(doc, "OperationDefinition", 1) # 0
    THEN doc[FirstOfKind(doc, "OperationDefinition", 1)]
    ELSE doc[FirstOfKind(doc, "FragmentDefinition", 1)]

\* Mutant of isSubscription: the kind of the main definition is not consulted
\* and every operation that is not a query goes to the subscription chain.
isSubscriptionNotQuery(doc) ==
    getMainDefinition(doc).operation # "query"

\* Mutant of isSubscription: the operation type is not consulted and every
\* operation definition goes to the subscription chain.
isSubscriptionAnyOperation(doc) ==
    getMainDefinition(doc).kind = "OperationDefinition"

\* Mutant of isSubscription: whatever is neither a query nor a mutation is
\* taken for a subscription.
isSubscriptionNotRequest(doc) ==
    getMainDefinition(doc).operation \notin {"query", "mutation"}

\* The predicate given to ApolloLink.split.
isSubscription(doc) ==
    LET kind == getMainDefinition(doc).kind
        graphqlOperation == getMainDefinition(doc).operation
    IN  kind = "OperationDefinition" /\ graphqlOperation = "subscription"

\* ------------------------------------------------------------------------
\* The factory
\* ------------------------------------------------------------------------
\* createHttpLink({ uri }).
createHttpLink(uri) == [type |-> "http", uri |-> uri]

\* The link whose request handler is the control-event extraction.
ControlEventsLink == [type |-> "controlEvents"]

\* new NonTerminatingLink(name, { link }).
NonTerminatingLink(name, inner) ==
    [class |-> "NonTerminatingLink", name |-> name, link |-> inner]

\* new SubscriptionHandshakeLink(key).
SubscriptionHandshakeLink(key) ==
    [class |-> "SubscriptionHandshakeLink", key |-> key]

\* new AppSyncRealTimeSubscriptionHandshakeLink(config).
AppSyncRealTimeSubscriptionHandshakeLink(config) ==
    [class |-> "AppSyncRealTimeSubscriptionHandshakeLink", config |-> config]

\* Mutant of resultsFetcherLink: the caller's link is ignored and an HTTP link
\* is always created.
resultsFetcherLinkAlwaysHttp(infoOrUrl, theResultsFetcherLink) ==
    IF infoOrUrl.typeof = "string"
    THEN createHttpLink(infoOrUrl.value)
    ELSE createHttpLink(infoOrUrl.url)

\* theResultsFetcherLink || createHttpLink({ uri }): uri is the string itself
\* in the string branch and the url field in the object branch.
resultsFetcherLink(infoOrUrl, theResultsFetcherLink) ==
    IF infoOrUrl.typeof = "string"
    THEN IF theResultsFetcherLink # NoLink
         THEN theResultsFetcherLink
         ELSE createHttpLink(infoOrUrl.value)
    ELSE IF theResultsFetcherLink # NoLink
         THEN theResultsFetcherLink
         ELSE createHttpLink(infoOrUrl.url)

\* Mutant of subscriptionLinks: the results-fetcher probe is composed before
\* the control-event stage.
subscriptionLinksProbeFirst(infoOrUrl, fetcher) ==
    IF infoOrUrl.typeof = "string"
    THEN << NonTerminatingLink("subsInfo", fetcher),
            NonTerminatingLink("controlMessages", ControlEventsLink),
            SubscriptionHandshakeLink("subsInfo") >>
    ELSE << AppSyncRealTimeSubscriptionHandshakeLink(infoOrUrl) >>

\* Mutant of subscriptionLinks: both wrappers are given the name
\* "controlMessages".
subscriptionLinksSameName(infoOrUrl, fetcher) ==
    IF infoOrUrl.typeof = "string"
    THEN << NonTerminatingLink("controlMessages", ControlEventsLink),
            NonTerminatingLink("controlMessages", fetcher),
            SubscriptionHandshakeLink("subsInfo") >>
    ELSE << AppSyncRealTimeSubscriptionHandshakeLink(infoOrUrl) >>

\* Mutant of subscriptionLinks: the handshake link is composed second, so
\* the chain ends before the "subsInfo" stage.
subscriptionLinksHandshakeSecond(infoOrUrl, fetcher) ==
    IF infoOrUrl.typeof = "string"
    THEN << NonTerminatingLink("controlMessages", ControlEventsLink),
            SubscriptionHandshakeLink("subsInfo"),
            NonTerminatingLink("subsInfo", fetcher) >>
    ELSE << AppSyncRealTimeSubscriptionHandshakeLink(infoOrUrl) >>

\* Mutant of subscriptionLinks: the three-stage chain is built for either
\* configuration shape.
subscriptionLinksAlwaysChain(infoOrUrl, fetcher) ==
    << NonTerminatingLink("controlMessages", ControlEventsLink),
       NonTerminatingLink("subsInfo", fetcher),
       SubscriptionHandshakeLink("subsInfo") >>

\* The subscription chain, as the sequence ApolloLink.from composes (string
\* configuration) or the single real-time link (object configuration).
subscriptionLinks(infoOrUrl, fetcher) ==
    IF infoOrUrl.typeof = "string"
    THEN << NonTerminatingLink("controlMessages", ControlEventsLink),
            NonTerminatingLink("subsInfo", fetcher),
            SubscriptionHandshakeLink("subsInfo") >>
    ELSE << AppSyncRealTimeSubscriptionHandshakeLink(infoOrUrl) >>

\* ApolloLink.split(test, left, right): the link the factory returns.
SplitLink(left, right) ==
    [class |-> "split", left |-> left, right |-> right]

\* Every link object the factory call constructs (a caller-supplied
\* results-fetcher is used, not constructed).
ConstructedBy(infoOrUrl, theResultsFetcherLink) ==
    LET fetcher == resultsFetcherLink(infoOrUrl, theResultsFetcherLink)
        chain == subscriptionLinks(infoOrUrl, fetcher)
        wrappers == { i \in DOMAIN chain : chain[i].class = "NonTerminatingLink" }
    IN  { chain[i] : i \in DOMAIN chain }
        \cup ({ chain[i].link : i \in wrappers } \ {theResultsFetcherLink})
        \cup (IF theResultsFetcherLink = NoLink THEN {fetcher} ELSE {})
        \cup { SplitLink(chain, fetcher) }

\* ------------------------------------------------------------------------
\* The control-event link (the request handler of the "controlMessages" stage)
\* ------------------------------------------------------------------------
\* Mutant of Destructure: the rest mapping keeps the reserved key.
DestructureKeepsKey(h, ref) ==
    IF ref <= 0
    THEN [threw |-> TRUE, controlEvents |-> UNDEF, variables |-> EmptyMap]
    ELSE [threw |-> FALSE,
          controlEvents |-> Get(h[ref], CONTROL_EVENTS_KEY),
          variables |-> h[ref]]

\* const { variables: { [CONTROL_EVENTS_KEY]: controlEvents, ...variables } }
\*   = operation;
\* Destructuring undefined or null throws a TypeError.
Destructure(h, ref) ==
    IF ref <= 0
    THEN [threw |-> TRUE, controlEvents |-> UNDEF, variables |-> EmptyMap]
    ELSE [threw |-> FALSE,
          controlEvents |-> Get(h[ref], CONTROL_EVENTS_KEY),
          variables |-> [k \in DOMAIN h[ref] \ {CONTROL_EVENTS_KEY} |-> h[ref][k]]]

\* Mutant of AssignVariables: the reserved key is deleted from the object
\* operation.variables refers to, in place.
AssignVariablesInPlace(h, ref, controlEvents, rest, new) ==
    [heap |-> [h EXCEPT ![ref] = rest], ref |-> ref]

\* Mutant of AssignVariables: the cleaned mapping is never written back.
AssignVariablesNever(h, ref, controlEvents, rest, new) ==
    [heap |-> h, ref |-> ref]

\* if (typeof controlEvents !== "undefined") { operation.variables = variables; }
\* The rest object is a new object, at the reference new; the original
\* object is left as it was.
AssignVariables(h, ref, controlEvents, rest, new) ==
    IF controlEvents # UNDEF
    THEN [heap |-> (new :> rest) @@ h, ref |-> new]
    ELSE [heap |-> h, ref |-> ref]

\* observer.next({ [CONTROL_EVENTS_KEY]: controlEvents })
ControlEmission(controlEvents) ==
    (CONTROL_EVENTS_KEY :> controlEvents)

TypeError == [name |-> "TypeError"]

\* ------------------------------------------------------------------------
\* Collaborators of index.ts
\* ------------------------------------------------------------------------
\* NonTerminatingLink: the value the inner link emitted is attached to the
\* operation's context under the wrapper's name.
AttachMetadata(ctx, name, value) ==
    (name :> value) @@ ctx

\* What a link sees of an operation when it receives it.
SnapshotOf(h, ref) ==
    [ref |-> ref, map |-> IF ref > 0 THEN h[ref] ELSE EmptyMap]

Received(by, role, h, ref, ctx) ==
    [link |-> by, role |-> role, variables |-> SnapshotOf(h, ref), context |-> ctx]

\* Values and errors of the collaborators, tagged with the operation they
\* were produced for.
FetcherResult(o) == [data |-> "result", op |-> o]
FetcherFault(o) == [name |-> "NetworkError", op |-> o]
TransportEvent(o) == [data |-> "event", op |-> o]
TransportFault(o) == [name |-> "ConnectionError", op |-> o]

NextEvent(v) == [type |-> "next", value |-> v]
ErrorEvent(e) == [type |-> "error", error |-> e]

\* ------------------------------------------------------------------------
\* Initial state: before the factory is called
\* ------------------------------------------------------------------------
Init ==
    /\ args = [infoOrUrl |-> NoValue, theResultsFetcherLink |-> NoLink]
    /\ link = NoLink
    /\ constructed = {}
    /\ heap = << >>
    /\ query = [o \in Ops |-> << >>]
    /\ variables = [o \in Ops |-> RefUndefined]
    /\ context = [o \in Ops |-> EmptyMap]
    /\ pc = [o \in Ops |-> "idle"]
    /\ stage = [o \in Ops |-> 0]
    /\ pending = [o \in Ops |-> NoValue]
    /\ seen = [o \in Ops |-> << >>]
    /\ emitted = [o \in Ops |-> << >>]
    /\ outcome = [o \in Ops |-> NoValue]
    /\ original = [o \in Ops |-> SnapshotOf(<< >>, RefUndefined)]
    /\ raised = [o \in Ops |-> NoValue]
    /\ probeOpen = {}
    /\ dispatches = [o \in Ops |-> 0]
    /\ closed = {}

\* Mutant of CreateLink: the factory issues a request on the results-fetcher
\* while it builds the link.
CreateLinkEager(infoOrUrl, theResultsFetcherLink) ==
    /\ link = NoLink
    /\ args' = [infoOrUrl |-> infoOrUrl, theResultsFetcherLink |-> theResultsFetcherLink]
    /\ LET fetcher == resultsFetcherLink(infoOrUrl, theResultsFetcherLink)
       IN  /\ link' = SplitLink(subscriptionLinks(infoOrUrl, fetcher), fetcher)
           /\ seen' = [seen EXCEPT ![1] =
                          Append(@, Received(fetcher, "terminating", heap,
                                             RefUndefined, EmptyMap))]
    /\ constructed' = ConstructedBy(infoOrUrl, theResultsFetcherLink)
    /\ UNCHANGED << heap, query, variables, context, pc, stage, pending,
                    emitted, outcome, original, raised, probeOpen, dispatches,
                    closed >>

\* ------------------------------------------------------------------------
\* createSubscriptionHandshakeLink(infoOrUrl, theResultsFetcherLink)
\* ------------------------------------------------------------------------
CreateLink(infoOrUrl, theResultsFetcherLink) ==
    /\ link = NoLink
    /\ args' = [infoOrUrl |-> infoOrUrl, theResultsFetcherLink |-> theResultsFetcherLink]
    /\ LET fetcher == resultsFetcherLink(infoOrUrl, theResultsFetcherLink)
       IN  link' = SplitLink(subscriptionLinks(infoOrUrl, fetcher), fetcher)
    /\ constructed' = ConstructedBy(infoOrUrl, theResultsFetcherLink)
    /\ UNCHANGED << heap, query, variables, context, pc, stage, pending, seen,
                    emitted, outcome, original, raised, probeOpen, dispatches,
                    closed >>

\* ------------------------------------------------------------------------
\* Dispatch of one operation through the returned link
\* ------------------------------------------------------------------------
\* forward(operation) into the link at index i of the subscription chain: a
\* non-terminating wrapper starts its inner link later; a terminating link
\* receives the operation now.
EnterChain(o, i, h, ref, ctx) ==
    LET l == link.left[i]
    IN  /\ stage' = [stage EXCEPT ![o] = i]
        /\ IF l.class = "NonTerminatingLink"
           THEN /\ pc' = [pc EXCEPT ![o] = "invoke"]
                /\ seen' = seen
           ELSE /\ pc' = [pc EXCEPT ![o] = "transport"]
                /\ seen' = [seen EXCEPT ![o] =
                               Append(@, Received(l, "terminating", h, ref, ctx))]

\* The operation as the split predicate receives it.
OperationOf(o, doc, h, ref) ==
    [query |-> doc, variables |-> SnapshotOf(h, ref).map, context |-> context[o]]

\* Mutant of test: the predicate also looks at the variables and takes a
\* subscription with no control event for a request/response operation.
testReadsVariables(operation) ==
    /\ isSubscription(operation.query)
    /\ Get(operation.variables, CONTROL_EVENTS_KEY) # UNDEF

\* operation => { const { query } = operation; ... return isSubscription; }
test(operation) == isSubscription(operation.query)

\* Mutant of Route: the decision taken for the first operation is kept for
\* the operations dispatched after it.
RouteCached(o, doc, h, ref) ==
    IF test(OperationOf(o, IF o > 1 THEN query[1] ELSE doc, h, ref))
    THEN EnterChain(o, 1, h, ref, context[o])
    ELSE /\ pc' = [pc EXCEPT ![o] = "fetching"]
         /\ stage' = stage
         /\ seen' = [seen EXCEPT ![o] =
                        Append(@, Received(link.right, "terminating", h, ref,
                                           context[o]))]

\* The split link's request handler: test(operation) ? left : right.
Route(o, doc, h, ref) ==
    IF test(OperationOf(o, doc, h, ref))
    THEN EnterChain(o, 1, h, ref, context[o])
    ELSE /\ pc' = [pc EXCEPT ![o] = "fetching"]
         /\ stage' = stage
         /\ seen' = [seen EXCEPT ![o] =
                        Append(@, Received(link.right, "terminating", h, ref,
                                           context[o]))]

\* Operations are numbered in the order they are dispatched.
CanDispatch(o) ==
    /\ link # NoLink
    /\ pc[o] = "idle"
    /\ \A p \in Ops : p < o => pc[p] # "idle"

\* An operation whose variables are a new object with contents m.
DispatchFresh(o, doc, m) ==
    /\ CanDispatch(o)
    /\ [query |-> doc, variables |-> m] \in Requests
    /\ heap' = (VariablesRef(o) :> m) @@ heap
    /\ dispatches' = [dispatches EXCEPT ![o] = 1]
    /\ query' = [query EXCEPT ![o] = doc]
    /\ variables' = [variables EXCEPT ![o] = VariablesRef(o)]
    /\ original' = [original EXCEPT ![o] = SnapshotOf(heap', VariablesRef(o))]
    /\ Route(o, doc, heap', VariablesRef(o))
    /\ UNCHANGED << closed, args, link, constructed, raised, probeOpen,
                    context, pending, emitted, outcome >>

\* An operation built from the variables object an earlier operation was
\* built from (the caller reuses one object for two requests).
DispatchShared(o, doc, p) ==
    /\ CanDispatch(o)
    /\ p \in Ops /\ p < o /\ original[p].ref > 0
    /\ dispatches' = [dispatches EXCEPT ![o] = 1]
    /\ query' = [query EXCEPT ![o] = doc]
    /\ variables' = [variables EXCEPT ![o] = original[p].ref]
    /\ original' = [original EXCEPT ![o] = SnapshotOf(heap, original[p].ref)]
    /\ Route(o, doc, heap, original[p].ref)
    /\ UNCHANGED << closed, args, link, constructed, raised, probeOpen,
                    heap, context, pending, emitted, outcome >>

\* An operation whose variables are absent (undefined or null).
DispatchAbsent(o, doc, ref) ==
    /\ CanDispatch(o)
    /\ ref \in {RefUndefined, RefNull}
    /\ dispatches' = [dispatches EXCEPT ![o] = 1]
    /\ query' = [query EXCEPT ![o] = doc]
    /\ variables' = [variables EXCEPT ![o] = ref]
    /\ original' = [original EXCEPT ![o] = SnapshotOf(heap, ref)]
    /\ Route(o, doc, heap, ref)
    /\ UNCHANGED << closed, args, link, constructed, raised, probeOpen,
                    heap, context, pending, emitted, outcome >>

\* ------------------------------------------------------------------------
\* The subscription chain of the string configuration
\* ------------------------------------------------------------------------
CurrentLink(o) == link.left[stage[o]]

\* The "controlMessages" wrapper subscribes to the control-event link: the
\* subscriber function runs.  A TypeError thrown by it is delivered as the
\* observable's error and ends the operation.
ControlMessages(o) ==
    /\ o \notin closed
    /\ pc[o] = "invoke"
    /\ CurrentLink(o).link = ControlEventsLink
    /\ LET d == Destructure(heap, variables[o])
           w == AssignVariables(heap, variables[o], d.controlEvents, d.variables,
                                RestRef(o))
       IN  IF d.threw
           THEN /\ pc' = [pc EXCEPT ![o] = "failed"]
                /\ outcome' = [outcome EXCEPT ![o] = ErrorEvent(TypeError)]
                /\ UNCHANGED << heap, variables, emitted, pending >>
           ELSE /\ heap' = w.heap
                /\ variables' = [variables EXCEPT ![o] = w.ref]
                /\ emitted' = [emitted EXCEPT ![o] =
                                  Append(@, ControlEmission(d.controlEvents))]
                /\ pending' = [pending EXCEPT ![o] = ControlEmission(d.controlEvents)]
                /\ pc' = [pc EXCEPT ![o] = "emitted"]
                /\ UNCHANGED outcome
    /\ UNCHANGED << closed, args, link, constructed, raised, probeOpen, dispatches,
                    query, context, stage, seen, original >>

\* The "subsInfo" wrapper hands the operation to the results-fetcher.
InvokeProbe(o) ==
    /\ o \notin closed
    /\ pc[o] = "invoke"
    /\ CurrentLink(o).link # ControlEventsLink
    /\ seen' = [seen EXCEPT ![o] =
                   Append(@, Received(CurrentLink(o).link, CurrentLink(o).name,
                                      heap, variables[o], context[o]))]
    /\ pc' = [pc EXCEPT ![o] = "probing"]
    /\ probeOpen' = probeOpen \cup {o}
    /\ UNCHANGED << closed, args, link, constructed, raised, dispatches,
                    heap, query, variables, context, stage,
                    pending, emitted, outcome, original >>

\* A non-terminating wrapper whose inner link has emitted attaches the value
\* under its name and forwards the operation to the next link of the chain.
Attach(o) ==
    /\ o \notin closed
    /\ pc[o] = "emitted"
    /\ stage[o] < Len(link.left)
    /\ context' = [context EXCEPT ![o] =
                      AttachMetadata(@, CurrentLink(o).name, pending[o])]
    /\ pending' = [pending EXCEPT ![o] = NoValue]
    /\ EnterChain(o, stage[o] + 1, heap, variables[o], context'[o])
    /\ UNCHANGED << closed, args, link, constructed, raised, probeOpen, dispatches,
                    heap, query, variables, emitted, outcome,
                    original >>

\* ------------------------------------------------------------------------
\* The collaborators answer
\* ------------------------------------------------------------------------
\* The results-fetcher emits a result: to the caller when it is the
\* terminating link, to the "subsInfo" wrapper when it is the probe.
FetcherNext(o) ==
    /\ o \notin closed
    /\ pc[o] \in {"fetching", "probing"}
    /\ IF pc[o] = "fetching"
       THEN /\ outcome' = [outcome EXCEPT ![o] = NextEvent(FetcherResult(o))]
            /\ pc' = [pc EXCEPT ![o] = "done"]
            /\ UNCHANGED pending
       ELSE /\ pending' = [pending EXCEPT ![o] = FetcherResult(o)]
            /\ pc' = [pc EXCEPT ![o] = "emitted"]
            /\ UNCHANGED outcome
    /\ UNCHANGED << closed, args, link, constructed, raised, probeOpen, dispatches,
                    heap, query, variables, context, stage,
                    seen, emitted, original >>

\* Mutant of FetcherError: the "subsInfo" wrapper swallows the probe's error
\* and forwards the operation as if the probe had emitted undefined.
FetcherErrorSwallowed(o) ==
    /\ o \notin closed
    /\ pc[o] \in {"fetching", "probing"}
    /\ raised' = [raised EXCEPT ![o] = FetcherFault(o)]
    /\ probeOpen' = probeOpen \ {o}
    /\ IF pc[o] = "fetching"
       THEN /\ outcome' = [outcome EXCEPT ![o] = ErrorEvent(FetcherFault(o))]
            /\ pc' = [pc EXCEPT ![o] = "failed"]
            /\ UNCHANGED pending
       ELSE /\ pending' = [pending EXCEPT ![o] = (CONTROL_EVENTS_KEY :> UNDEF)]
            /\ pc' = [pc EXCEPT ![o] = "emitted"]
            /\ UNCHANGED outcome
    /\ UNCHANGED << closed, args, link, constructed, dispatches, heap, query, variables,
                    context, stage, seen, emitted, original >>

\* The results-fetcher fails: the error reaches the caller's result stream
\* and ends the operation; a probe that failed holds no subscription.
FetcherError(o) ==
    /\ o \notin closed
    /\ pc[o] \in {"fetching", "probing"}
    /\ outcome' = [outcome EXCEPT ![o] = ErrorEvent(FetcherFault(o))]
    /\ pc' = [pc EXCEPT ![o] = "failed"]
    /\ raised' = [raised EXCEPT ![o] = FetcherFault(o)]
    /\ probeOpen' = probeOpen \ {o}
    /\ UNCHANGED << closed, args, link, constructed, dispatches,
                    heap, query, variables, context, stage,
                    pending, seen, emitted, original >>

\* The handshake link (either kind) delivers a subscription event.
TransportNext(o) ==
    /\ o \notin closed
    /\ pc[o] = "transport"
    /\ outcome' = [outcome EXCEPT ![o] = NextEvent(TransportEvent(o))]
    /\ pc' = [pc EXCEPT ![o] = "done"]
    /\ UNCHANGED << closed, args, link, constructed, raised, probeOpen, dispatches,
                    heap, query, variables, context, stage,
                    pending, seen, emitted, original >>

\* The handshake link (either kind) fails.
TransportError(o) ==
    /\ o \notin closed
    /\ pc[o] = "transport"
    /\ outcome' = [outcome EXCEPT ![o] = ErrorEvent(TransportFault(o))]
    /\ pc' = [pc EXCEPT ![o] = "failed"]
    /\ raised' = [raised EXCEPT ![o] = TransportFault(o)]
    /\ UNCHANGED << closed, args, link, constructed, probeOpen, dispatches,
                    heap, query, variables, context, stage,
                    pending, seen, emitted, original >>

\* ------------------------------------------------------------------------
\* The caller unsubscribes from the result stream
\* ------------------------------------------------------------------------
\* return () => { }: the teardown of the control-event observable holds no
\* resource and leaves the heap as it is.
ControlEventsTeardown(h) == h

\* The result stream of a subscription is open and the caller has control:
\* the chain is waiting for the results-fetcher or for the transport (the
\* stages before that run within the caller's subscribe call).
StreamOpen(o) ==
    /\ o \notin closed
    /\ pc[o] \in {"probing", "transport"}

\* Mutant of Unsubscribe: the "subsInfo" wrapper does not pass the teardown
\* on to the subscription it opened on the results-fetcher.
UnsubscribeLeaky(o) ==
    /\ StreamOpen(o)
    /\ closed' = closed \cup {o}
    /\ heap' = ControlEventsTeardown(heap)
    /\ UNCHANGED << pc, pending, args, link, constructed, raised, probeOpen, dispatches, query,
                    variables, context, stage, seen, emitted, outcome, original >>

\* Closing the outer stream tears down the stages of the chain: the
\* control-event observable's teardown does nothing, the "subsInfo" wrapper
\* closes the subscription it opened on the results-fetcher.
Unsubscribe(o) ==
    /\ StreamOpen(o)
    /\ closed' = closed \cup {o}
    /\ heap' = ControlEventsTeardown(heap)
    /\ probeOpen' = probeOpen \ {o}
    /\ UNCHANGED << pc, pending, args, link, constructed, raised, dispatches, query,
                    variables, context, stage, seen, emitted, outcome, original >>

\* ------------------------------------------------------------------------
\* Specification
\* ------------------------------------------------------------------------
Next ==
    \/ \E c \in Configs, f \in FetcherArgs : CreateLink(c, f)
    \/ \E o \in Ops, doc \in Documents, m \in Mappings : DispatchFresh(o, doc, m)
    \/ \E o \in Ops, doc \in Documents, p \in Ops : DispatchShared(o, doc, p)
    \/ \E o \in Ops, doc \in SubscriptionDocuments, r \in {RefUndefined, RefNull} :
          DispatchAbsent(o, doc, r)
    \/ \E o \in Ops : ControlMessages(o)
    \/ \E o \in Ops : InvokeProbe(o)
    \/ \E o \in Ops : Attach(o)
    \/ \E o \in Ops : FetcherNext(o)
    \/ \E o \in Ops : FetcherError(o)
    \/ \E o \in Ops : TransportNext(o)
    \/ \E o \in Ops : TransportError(o)
    \/ \E o \in Ops : Unsubscribe(o)

Spec == Init /\ [][Next]_vars

\* ------------------------------------------------------------------------
\* Retries: a failed operation is handed to the link again
\* ------------------------------------------------------------------------
\* The caller (or a retry link in front of the returned link) dispatches the
\* same operation object again: its query, its variables as the earlier run
\* left them and its metadata go through the split once more.
Redispatch(o) ==
    /\ link # NoLink
    /\ o \notin closed
    /\ pc[o] = "failed"
    /\ dispatches[o] < MaxDispatches
    /\ dispatches' = [dispatches EXCEPT ![o] = @ + 1]
    /\ outcome' = [outcome EXCEPT ![o] = NoValue]
    /\ pending' = [pending EXCEPT ![o] = NoValue]
    /\ Route(o, query[o], heap, variables[o])
    /\ UNCHANGED << closed, args, link, constructed, raised, probeOpen, heap,
                    query, variables, context, emitted, original >>

NextRetry ==
    \/ Next
    \/ \E o \in Ops : Redispatch(o)

SpecRetry == Init /\ [][NextRetry]_vars

\* ------------------------------------------------------------------------
\* Vocabulary of the properties
\* ------------------------------------------------------------------------
Dispatched(o) == pc[o] # "idle"

StringConfig == link # NoLink /\ args.infoOrUrl.typeof = "string"
ObjectConfig == link # NoLink /\ args.infoOrUrl.typeof = "object"

\* The main definition of o's document is a subscription operation.
SubscriptionOp(o) ==
    /\ Dispatched(o)
    /\ getMainDefinition(query[o]).kind = "OperationDefinition"
    /\ getMainDefinition(query[o]).operation = "subscription"

\* The main definition of o's document is a query or a mutation.
QueryOrMutationOp(o) ==
    /\ Dispatched(o)
    /\ getMainDefinition(query[o]).kind = "OperationDefinition"
    /\ getMainDefinition(query[o]).operation \in {"query", "mutation"}

\* The entries of seen[o] made by the results-fetcher as terminating link.
FetcherTerminating(o) ==
    { i \in DOMAIN seen[o] :
        seen[o][i].role = "terminating" /\ seen[o][i].link = link.right }

\* The entries of seen[o] made by links of the subscription chain.
ChainReceipts(o) ==
    { i \in DOMAIN seen[o] :
        \/ seen[o][i].role # "terminating"
        \/ seen[o][i].link # link.right }

\* The control-event stage has run on o to its end (its emission included).
ControlRan(o) ==
    /\ StringConfig
    /\ SubscriptionOp(o)
    /\ \/ stage[o] > 1
       \/ stage[o] = 1 /\ pc[o] \notin {"invoke", "idle"}

\* m without the reserved key.
WithoutKey(m) == [k \in DOMAIN m \ {CONTROL_EVENTS_KEY} |-> m[k]]

\* The mapping operation.variables refers to now.
CurrentVariables(o) == SnapshotOf(heap, variables[o]).map

\* ------------------------------------------------------------------------
\* C1: a subscription operation is handed to the subscription sub-chain and
\* never to the results-fetcher as terminating link; a query or mutation is
\* handed to the results-fetcher and never reaches the subscription
\* sub-chain or the handshake stage.  Both configuration shapes.
\* ------------------------------------------------------------------------
C1_Routing ==
    \A o \in Ops :
        /\ SubscriptionOp(o) =>
              /\ stage[o] >= 1
              /\ FetcherTerminating(o) = {}
        /\ QueryOrMutationOp(o) =>
              /\ stage[o] = 0
              /\ seen[o] = << Received(link.right, "terminating", heap,
                                       original[o].ref, EmptyMap) >>
              /\ emitted[o] = << >>
              /\ context[o] = EmptyMap
              /\ pc[o] \in {"fetching", "done", "failed"}

C1_Witness ==
    \E o, p \in Ops :
        /\ SubscriptionOp(o) /\ pc[o] = "transport"
        /\ QueryOrMutationOp(p) /\ pc[p] = "done"
        /\ getMainDefinition(query[p]).operation = "mutation"

\* ------------------------------------------------------------------------
\* C2: bare-URL configuration, subscription whose variables hold the
\* reserved key with a defined value v: after the control-event stage,
\* operation.variables is the original mapping minus the reserved key and
\* the stage has emitted exactly { [CONTROL_EVENTS_KEY]: v }.
\* ------------------------------------------------------------------------
HasDefinedControlEvents(o) ==
    /\ original[o].ref > 0
    /\ CONTROL_EVENTS_KEY \in DOMAIN original[o].map
    /\ original[o].map[CONTROL_EVENTS_KEY] # UNDEF

C2_StripAndEmit ==
    \A o \in Ops :
        ControlRan(o) /\ HasDefinedControlEvents(o) =>
            /\ variables[o] > 0
            /\ CurrentVariables(o) = WithoutKey(original[o].map)
            /\ emitted[o] =
                  << (CONTROL_EVENTS_KEY :> original[o].map[CONTROL_EVENTS_KEY]) >>

C2_Witness ==
    \E o \in Ops :
        /\ ControlRan(o) /\ HasDefinedControlEvents(o)
        /\ original[o].map = WithControlEvents
        /\ CurrentVariables(o) = [a |-> "1"]

\* ------------------------------------------------------------------------
\* C3: once the control-event stage has run on an operation, the reserved
\* key is not a key of the variables mapping any later stage (the subsInfo
\* probe, the handshake stage) receives, whatever the input mapping: also
\* when the reserved key is present and mapped to undefined.
\* ------------------------------------------------------------------------
C3_KeyNeverDownstream ==
    \A o \in Ops :
        ControlRan(o) =>
            \A i \in ChainReceipts(o) :
                CONTROL_EVENTS_KEY \notin DOMAIN seen[o][i].variables.map

\* ------------------------------------------------------------------------
\* C4: bare-URL configuration, subscription whose variables are absent
\* (undefined or null): the control-event stage signals no error, emits
\* { [CONTROL_EVENTS_KEY]: undefined } and the operation goes on to the
\* next stage.
\* ------------------------------------------------------------------------
C4_AbsentVariablesTolerated ==
    \A o \in Ops :
        ControlRan(o) /\ original[o].ref \in {RefUndefined, RefNull} =>
            /\ outcome[o] # ErrorEvent(TypeError)
            /\ emitted[o] = << (CONTROL_EVENTS_KEY :> UNDEF) >>
            /\ pc[o] # "failed" \/ stage[o] > 1

\* ------------------------------------------------------------------------
\* C5: bare-URL configuration, subscription whose variables do not hold
\* the reserved key: after the control-event stage operation.variables is
\* unchanged and the stage has emitted { [CONTROL_EVENTS_KEY]: undefined };
\* and on every run of the stage, exactly one object carrying the reserved
\* key is emitted.
\* ------------------------------------------------------------------------
C5_EmitsOnEveryRun ==
    \A o \in Ops :
        ControlRan(o) =>
            /\ Len(emitted[o]) = 1
            /\ DOMAIN emitted[o][1] = {CONTROL_EVENTS_KEY}
            /\ CONTROL_EVENTS_KEY \notin DOMAIN original[o].map =>
                  /\ variables[o] = original[o].ref
                  /\ CurrentVariables(o) = original[o].map
                  /\ emitted[o] = << (CONTROL_EVENTS_KEY :> UNDEF) >>

\* ------------------------------------------------------------------------
\* C6: bare-URL configuration: whenever the subsInfo probe or the handshake
\* stage receives a subscription operation, the control-event stage has
\* already replaced its variables: no receipt shows the reserved key with a
\* defined value, and an operation dispatched with a defined control event
\* is received with the original mapping minus the reserved key.
\* ------------------------------------------------------------------------
C6_CleanedBeforeForward ==
    \A o \in Ops :
        StringConfig /\ SubscriptionOp(o) =>
            /\ \A i \in DOMAIN seen[o] :
                  /\ Get(seen[o][i].variables.map, CONTROL_EVENTS_KEY) = UNDEF
                  /\ HasDefinedControlEvents(o) =>
                        seen[o][i].variables.map = WithoutKey(original[o].map)
            /\ stage[o] > 1 =>
                  Get(CurrentVariables(o), CONTROL_EVENTS_KEY) = UNDEF

C6_Witness ==
    \E o \in Ops :
        /\ StringConfig /\ SubscriptionOp(o) /\ HasDefinedControlEvents(o)
        /\ Len(seen[o]) = 2
        /\ seen[o][1].role = "subsInfo"
        /\ seen[o][2].link.class = "SubscriptionHandshakeLink"

\* ------------------------------------------------------------------------
\* C7: bare-URL subscription chain: the stages run in the order
\* controlMessages, subsInfo, handshake; the probe starts with the
\* control-event object already attached under "controlMessages", and the
\* handshake stage starts with that and the results-fetcher's value under
\* "subsInfo".
\* ------------------------------------------------------------------------
ControlMetadata(o) ==
    ("controlMessages" :>
        (CONTROL_EVENTS_KEY :> Get(original[o].map, CONTROL_EVENTS_KEY)))

C7_StageOrder ==
    \A o \in Ops :
        StringConfig /\ SubscriptionOp(o) =>
            /\ Len(seen[o]) <= 2
            /\ Len(seen[o]) >= 1 =>
                  /\ Len(emitted[o]) = 1
                  /\ seen[o][1].role = "subsInfo"
                  /\ seen[o][1].link = link.right
                  /\ seen[o][1].context = ControlMetadata(o)
            /\ Len(seen[o]) = 2 =>
                  /\ seen[o][2].role = "terminating"
                  /\ seen[o][2].link = SubscriptionHandshakeLink("subsInfo")
                  /\ seen[o][2].context =
                        ("subsInfo" :> FetcherResult(o)) @@ ControlMetadata(o)

C7_Witness ==
    \E o \in Ops :
        /\ StringConfig /\ SubscriptionOp(o)
        /\ Len(seen[o]) = 2
        /\ seen[o][2].context["subsInfo"] = FetcherResult(o)
        /\ seen[o][2].context["controlMessages"] = (CONTROL_EVENTS_KEY :> "{x:true}")

\* ------------------------------------------------------------------------
\* C8: operations dispatched through the same link instance do not
\* interfere, in any interleaving of their steps: a step of one operation
\* (its control-event extraction included) leaves every other operation's
\* variables and metadata as they were, and an operation's metadata holds
\* only values produced for that operation.  Operations built from the same
\* variables object are included.
\* ------------------------------------------------------------------------
MetadataOwn ==
    \A o \in Ops :
        /\ DOMAIN context[o] \subseteq {"controlMessages", "subsInfo"}
        /\ "controlMessages" \in DOMAIN context[o] =>
              context[o]["controlMessages"] =
                  (CONTROL_EVENTS_KEY :> Get(original[o].map, CONTROL_EVENTS_KEY))
        /\ "subsInfo" \in DOMAIN context[o] =>
              context[o]["subsInfo"] = FetcherResult(o)
        /\ Dispatched(o) /\ ~ControlRan(o) =>
              CurrentVariables(o) = original[o].map

OthersUntouched ==
    \A b \in Ops :
        Dispatched(b) /\ pc'[b] = pc[b] /\ stage'[b] = stage[b] =>
            /\ variables'[b] = variables[b]
            /\ SnapshotOf(heap', variables'[b]) = SnapshotOf(heap, variables[b])
            /\ context'[b] = context[b]

C8_NoInterference == [](MetadataOwn) /\ [][OthersUntouched]_vars

C8_Witness ==
    \E a, b \in Ops :
        /\ a # b
        /\ ControlRan(a) /\ HasDefinedControlEvents(a)
        /\ QueryOrMutationOp(b) /\ pc[b] = "fetching"
        /\ original[b].ref = original[a].ref
        /\ variables[a] # variables[b]
        /\ CONTROL_EVENTS_KEY \in DOMAIN CurrentVariables(b)

\* ------------------------------------------------------------------------
\* C9: a non-terminating wrapper whose inner link emitted V attaches V
\* under the wrapper's name and forwards the operation to the next stage
\* exactly once; the chain never stops at the controlMessages stage or at
\* the subsInfo stage when the inner link emits.
\* ------------------------------------------------------------------------
HandshakeReceipts(o) ==
    { i \in DOMAIN seen[o] : seen[o][i].role = "terminating" }

ProbeReceipts(o) ==
    { i \in DOMAIN seen[o] : seen[o][i].role = "subsInfo" }

C9_NonTerminating ==
    \A o \in Ops :
        StringConfig /\ SubscriptionOp(o) =>
            /\ pc[o] = "emitted" /\ o \notin closed =>
                  /\ link.left[stage[o]].class = "NonTerminatingLink"
                  /\ ENABLED Attach(o)
            /\ \A i \in 1..(stage[o] - 1) :
                  /\ link.left[i].class = "NonTerminatingLink"
                  /\ link.left[i].name \in DOMAIN context[o]
            /\ stage[o] >= 2 => context[o]["controlMessages"] = emitted[o][1]
            /\ stage[o] >= 3 => context[o]["subsInfo"] = FetcherResult(o)
            /\ Cardinality(ProbeReceipts(o)) =
                  (IF stage[o] > 2 \/ (stage[o] = 2 /\ pc[o] # "invoke")
                   THEN 1 ELSE 0)
            /\ Cardinality(HandshakeReceipts(o)) = (IF stage[o] = 3 THEN 1 ELSE 0)
            /\ pc[o] \in {"transport", "done"} =>
                  /\ stage[o] = Len(link.left)
                  /\ {"controlMessages", "subsInfo"} \subseteq DOMAIN context[o]

C9_Witness ==
    \E o \in Ops :
        /\ StringConfig /\ SubscriptionOp(o)
        /\ pc[o] = "done"
        /\ stage[o] = 3
        /\ context[o]["controlMessages"] = (CONTROL_EVENTS_KEY :> UNDEF)
        /\ context[o]["subsInfo"] = FetcherResult(o)

\* ------------------------------------------------------------------------
\* C10: with an object configuration the subscription path is the single
\* real-time handshake link built from the whole configuration object: no
\* controlMessages or subsInfo stage is constructed, and a subscription
\* reaches the real-time link with its variables unmodified and without
\* the results-fetcher being invoked for it.  With a string configuration
\* the three-stage chain is built.  Only the type of the first argument
\* decides.
\* ------------------------------------------------------------------------
C10_ConfigShape ==
    link # NoLink =>
        IF args.infoOrUrl.typeof = "string"
        THEN link.left = << NonTerminatingLink("controlMessages", ControlEventsLink),
                            NonTerminatingLink("subsInfo", link.right),
                            SubscriptionHandshakeLink("subsInfo") >>
        ELSE /\ link.left = << AppSyncRealTimeSubscriptionHandshakeLink(args.infoOrUrl) >>
             /\ \A c \in constructed :
                   /\ c # ControlEventsLink
                   /\ "class" \in DOMAIN c => c.class # "NonTerminatingLink"
             /\ \A o \in Ops :
                   SubscriptionOp(o) =>
                       /\ seen[o] =
                             << Received(AppSyncRealTimeSubscriptionHandshakeLink(
                                             args.infoOrUrl),
                                         "terminating", heap, original[o].ref,
                                         EmptyMap) >>
                       /\ variables[o] = original[o].ref
                       /\ CurrentVariables(o) = original[o].map
                       /\ emitted[o] = << >>
                       /\ context[o] = EmptyMap

C10_Witness ==
    \E o \in Ops :
        /\ ObjectConfig /\ SubscriptionOp(o) /\ HasDefinedControlEvents(o)
        /\ pc[o] = "done"
        /\ Len(seen[o]) = 1
        /\ seen[o][1].link.class = "AppSyncRealTimeSubscriptionHandshakeLink"
        /\ seen[o][1].link.config.region = "us-east-1"
        /\ CONTROL_EVENTS_KEY \in DOMAIN seen[o][1].variables.map

\* ------------------------------------------------------------------------
\* C11: in both configuration shapes a results-fetcher supplied by the
\* caller is the one used and no HTTP link is constructed; when none is
\* supplied an HTTP link is constructed with uri equal to the configured
\* URL (the string itself, or the url field of the object).  The resolved
\* results-fetcher is the link that receives every non-subscription
\* operation.
\* ------------------------------------------------------------------------
ConfiguredUrl ==
    IF args.infoOrUrl.typeof = "string"
    THEN args.infoOrUrl.value
    ELSE args.infoOrUrl.url

HttpLinksConstructed ==
    { c \in constructed : "type" \in DOMAIN c /\ c.type = "http" }

C11_FetcherResolution ==
    link # NoLink =>
        /\ args.theResultsFetcherLink # NoLink =>
              /\ link.right = args.theResultsFetcherLink
              /\ HttpLinksConstructed = {}
        /\ args.theResultsFetcherLink = NoLink =>
              /\ link.right = [type |-> "http", uri |-> ConfiguredUrl]
              /\ HttpLinksConstructed = { link.right }
        /\ \A o \in Ops :
              Dispatched(o) /\ ~SubscriptionOp(o) =>
                  /\ Len(seen[o]) >= 1
                  /\ \A i \in DOMAIN seen[o] :
                        /\ seen[o][i].link = link.right
                        /\ seen[o][i].role = "terminating"

C11_Witness ==
    \E o \in Ops :
        /\ StringConfig
        /\ args.theResultsFetcherLink = NoLink
        /\ QueryOrMutationOp(o)
        /\ seen[o][1].link = [type |-> "http", uri |-> "https://example/graphql"]
        /\ pc[o] = "done"

\* ------------------------------------------------------------------------
\* C12: an error raised inside the results-fetcher or the handshake
\* transport reaches the caller's result stream as that same error: it is
\* not swallowed, replaced or retried.  This holds for the results-fetcher
\* as terminating link and as subsInfo probe; after a probe error the
\* handshake stage is not started.
\* ------------------------------------------------------------------------
FetcherReceipts(o) ==
    { i \in DOMAIN seen[o] : seen[o][i].link = link.right }

C12_ErrorsUnchanged ==
    \A o \in Ops :
        raised[o] # NoValue =>
            /\ outcome[o] = [type |-> "error", error |-> raised[o]]
            /\ pc[o] = "failed"
            /\ Cardinality(FetcherReceipts(o)) <= 1
            /\ Cardinality(HandshakeReceipts(o) \ FetcherReceipts(o)) <= 1
            /\ raised[o] = FetcherFault(o) /\ SubscriptionOp(o) =>
                  /\ HandshakeReceipts(o) = {}
                  /\ "subsInfo" \notin DOMAIN context[o]

C12_Witness ==
    \E o, p \in Ops :
        /\ StringConfig
        /\ SubscriptionOp(o) /\ raised[o] = FetcherFault(o)
        /\ outcome[o] = ErrorEvent(FetcherFault(o))
        /\ QueryOrMutationOp(p) /\ raised[p] = FetcherFault(p)
        /\ outcome[p] = ErrorEvent(FetcherFault(p))

\* ------------------------------------------------------------------------
\* C13: the route is decided anew for every operation: whatever was
\* dispatched before it through the same link instance, an operation is in
\* the subscription sub-chain exactly when its own document's main
\* definition is a subscription operation, and at the results-fetcher
\* otherwise.
\* ------------------------------------------------------------------------
InSubChain(o) == stage[o] >= 1

AtResultsFetcher(o) ==
    /\ stage[o] = 0
    /\ Len(seen[o]) >= 1
    /\ seen[o][1].link = link.right
    /\ seen[o][1].role = "terminating"

C13_RoutePerOperation ==
    \A o \in Ops :
        Dispatched(o) =>
            IF getMainDefinition(query[o]) = OperationDefinition("subscription")
            THEN InSubChain(o) /\ ~AtResultsFetcher(o)
            ELSE AtResultsFetcher(o) /\ ~InSubChain(o)

\* A query dispatched first, a subscription second.
C13_Witness ==
    /\ NumOps >= 2
    /\ Dispatched(1) /\ Dispatched(2)
    /\ getMainDefinition(query[1]) = OperationDefinition("query")
    /\ getMainDefinition(query[2]) = OperationDefinition("subscription")
    /\ AtResultsFetcher(1)
    /\ InSubChain(2)

\* ------------------------------------------------------------------------
\* C14: unsubscribing from the outer result stream of a subscription
\* releases what the probe stages opened: once the stream is closed the
\* subscription the subsInfo stage opened on the results-fetcher is closed
\* too, and the teardown of the control-event stage changes nothing (no
\* variables object, no operation's variables or metadata).
\* ------------------------------------------------------------------------
ClosedReleasesProbe ==
    \A o \in Ops : o \in closed => o \notin probeOpen

TeardownChangesNothing ==
    \A o \in Ops :
        o \notin closed /\ o \in closed' =>
            /\ heap' = heap
            /\ variables' = variables
            /\ context' = context
            /\ emitted' = emitted

C14_TeardownReachesProbe ==
    [](ClosedReleasesProbe) /\ [][TeardownChangesNothing]_vars

C14_Witness ==
    \E o \in Ops :
        /\ StringConfig /\ SubscriptionOp(o)
        /\ o \in closed
        /\ stage[o] = 3
        /\ Cardinality(ProbeReceipts(o)) = 1
        /\ Len(emitted[o]) = 1
        /\ o \notin probeOpen

\* ------------------------------------------------------------------------
\* C15: the factory call only constructs link objects.  The step that
\* builds the link dispatches no operation, runs no request handler and
\* subscribes no observable: everything but the link objects is left as it
\* was.  A link has received an operation, the control-event stage has
\* emitted, or a subscription on the results-fetcher is open, only for an
\* operation that was dispatched through the built link.
\* ------------------------------------------------------------------------
FactoryStep == link = NoLink /\ link' # NoLink

FactoryTouchesNoOperation ==
    FactoryStep =>
        UNCHANGED << heap, query, variables, context, pc, stage, pending, seen,
                     emitted, outcome, original, raised, probeOpen, dispatches,
                     closed >>

InvokedOnlyAtDispatch ==
    \A o \in Ops :
        (seen[o] # << >> \/ emitted[o] # << >> \/ o \in probeOpen
           \/ outcome[o] # NoValue)
        => link # NoLink /\ dispatches[o] >= 1

C15_FactoryOnlyConstructs ==
    [][FactoryTouchesNoOperation]_vars /\ [](InvokedOnlyAtDispatch)

C15_Witness ==
    /\ link # NoLink
    /\ StringConfig
    /\ Cardinality(constructed) >= 5
    /\ \A o \in Ops : dispatches[o] = 0 /\ seen[o] = << >> /\ emitted[o] = << >>
    /\ probeOpen = {}

\* ------------------------------------------------------------------------
\* C16: the transport selector has no effect and is stable.  A step that
\* hands an operation to the link again evaluates the selector and leaves
\* the operation's query, variables and metadata (and every variables
\* object) as they were; the operation takes the route it took the first
\* time, whatever the earlier run did to its variables and metadata; and
\* the route of every dispatched operation is the one the selector gives
\* for its document.
\* ------------------------------------------------------------------------
Retried(o) == dispatches[o] >= 1 /\ dispatches'[o] > dispatches[o]

SelectorLeavesOperation ==
    \A o \in Ops :
        Retried(o) =>
            /\ query' = query
            /\ variables' = variables
            /\ context' = context
            /\ heap' = heap

SameRouteOnRetry ==
    \A o \in Ops :
        Retried(o) => ((pc'[o] # "fetching") <=> (stage[o] >= 1))

RouteBySelectorAlone ==
    \A o \in Ops :
        Dispatched(o) =>
            ((pc[o] = "fetching" \/ stage[o] = 0) <=> ~isSubscription(query[o]))

C16_SelectorPure ==
    /\ [][SelectorLeavesOperation /\ SameRouteOnRetry]_vars
    /\ [](RouteBySelectorAlone)

C16_Witness ==
    \E o \in Ops :
        /\ StringConfig /\ SubscriptionOp(o)
        /\ dispatches[o] = 2
        /\ HasDefinedControlEvents(o)
        /\ CONTROL_EVENTS_KEY \notin DOMAIN CurrentVariables(o)
        /\ context[o] # EmptyMap
        /\ pc[o] = "invoke" /\ stage[o] = 1

\* ------------------------------------------------------------------------
\* C17: the reserved key is stripped only on the subscription path of the
\* string configuration.  A query or mutation whose variables carry the
\* reserved key is received once, by the results-fetcher, with the variables
\* object it was dispatched with and the key still in it, whatever the
\* configuration; an operation whose variables were replaced is a
\* subscription of the string configuration.
\* ------------------------------------------------------------------------
DispatchedWithKey(o) ==
    original[o].ref > 0 /\ CONTROL_EVENTS_KEY \in DOMAIN original[o].map

C17_StripOnlyOnSubscriptionPath ==
    \A o \in Ops :
        /\ QueryOrMutationOp(o) /\ DispatchedWithKey(o) =>
              /\ variables[o] = original[o].ref
              /\ CurrentVariables(o) = original[o].map
              /\ emitted[o] = << >>
              /\ Len(seen[o]) = 1
              /\ seen[o][1].link = link.right
              /\ seen[o][1].variables = original[o]
              /\ CONTROL_EVENTS_KEY \in DOMAIN seen[o][1].variables.map
        /\ variables[o] # original[o].ref => StringConfig /\ SubscriptionOp(o)

C17_Witness ==
    \E o \in Ops :
        /\ StringConfig
        /\ QueryOrMutationOp(o)
        /\ getMainDefinition(query[o]).operation = "mutation"
        /\ pc[o] = "done"
        /\ Get(seen[o][1].variables.map, CONTROL_EVENTS_KEY) # UNDEF

\* ------------------------------------------------------------------------
\* C18: bare-URL configuration: every dispatched subscription invokes the
\* results-fetcher exactly once, as the subsInfo probe and after the
\* control-event stage has emitted and its value was attached; the link of
\* the subsInfo stage is the results-fetcher of the non-subscription path,
\* which receives every query or mutation exactly once.
\* ------------------------------------------------------------------------
RunOver(o) == pc[o] \in {"done", "failed"}

ProbeAtMostOnceAfterControl(o) ==
    /\ link.left[2].name = "subsInfo"
    /\ link.left[2].link = link.right
    /\ FetcherReceipts(o) = ProbeReceipts(o)
    /\ Cardinality(ProbeReceipts(o)) <= 1
    /\ \A i \in ProbeReceipts(o) :
          /\ Len(emitted[o]) = 1
          /\ "controlMessages" \in DOMAIN seen[o][i].context
          /\ seen[o][i].context["controlMessages"] = emitted[o][1]

FetcherOncePerRequest(o) ==
    /\ Cardinality(FetcherTerminating(o)) = 1
    /\ FetcherReceipts(o) = FetcherTerminating(o)

C18_ProbeOncePerSubscription ==
    \A o \in Ops :
        /\ StringConfig /\ SubscriptionOp(o) =>
              /\ ProbeAtMostOnceAfterControl(o)
              /\ RunOver(o) => Cardinality(ProbeReceipts(o)) = 1
        /\ StringConfig /\ QueryOrMutationOp(o) => FetcherOncePerRequest(o)

\* ------------------------------------------------------------------------
\* C19: the control-event extraction is idempotent on the variables and not
\* on the emitted value.  When the stage runs again on an operation it has
\* already run on (the operation is dispatched again), operation.variables
\* stays what the first run left (the same object, the mapping of the first
\* dispatch without a defined reserved key), and the later run emits
\* { [CONTROL_EVENTS_KEY]: undefined } whatever the first run emitted.
\* ------------------------------------------------------------------------
FirstRunResult(o) ==
    IF HasDefinedControlEvents(o)
    THEN WithoutKey(original[o].map)
    ELSE original[o].map

SecondRun(o) == Len(emitted[o]) >= 1 /\ Len(emitted'[o]) > Len(emitted[o])

SecondRunKeepsVariables ==
    \A o \in Ops :
        SecondRun(o) =>
            /\ variables'[o] = variables[o]
            /\ heap' = heap
            /\ emitted'[o][Len(emitted'[o])] = (CONTROL_EVENTS_KEY :> UNDEF)

VariablesAreFirstRunResult ==
    \A o \in Ops :
        Len(emitted[o]) >= 1 =>
            /\ CurrentVariables(o) = FirstRunResult(o)
            /\ \A i \in DOMAIN emitted[o] :
                  i >= 2 => emitted[o][i] = (CONTROL_EVENTS_KEY :> UNDEF)

C19_ExtractionIdempotent ==
    [][SecondRunKeepsVariables]_vars /\ [](VariablesAreFirstRunResult)

C19_Witness ==
    \E o \in Ops :
        /\ dispatches[o] = 2
        /\ Len(emitted[o]) = 2
        /\ emitted[o][1][CONTROL_EVENTS_KEY] # UNDEF
        /\ emitted[o][2] = (CONTROL_EVENTS_KEY :> UNDEF)
        /\ CurrentVariables(o) = WithoutKey(original[o].map)

\* ------------------------------------------------------------------------
\* C20: a document whose main definition is a fragment definition is not a
\* subscription: the operation goes to the results-fetcher, in either
\* configuration, and to no link of the subscription chain.  An operation
\* went to the subscription chain only if the main definition of its
\* document is an operation definition of type subscription.
\* ------------------------------------------------------------------------
FragmentOnly(doc) ==
    doc # << >> /\ \A i \in DOMAIN doc : doc[i].kind = "FragmentDefinition"

WentToChain(o) == stage[o] >= 1 \/ ChainReceipts(o) # {} \/ emitted[o] # << >>

C20_FragmentToFetcher ==
    \A o \in Ops :
        Dispatched(o) =>
            /\ FragmentOnly(query[o]) =>
                  /\ getMainDefinition(query[o]).kind = "FragmentDefinition"
                  /\ ~WentToChain(o)
                  /\ Len(seen[o]) = 1
                  /\ seen[o][1].link = link.right
                  /\ seen[o][1].role = "terminating"
            /\ WentToChain(o) =>
                  /\ getMainDefinition(query[o]).kind = "OperationDefinition"
                  /\ getMainDefinition(query[o]).operation = "subscription"

C20_Witness ==
    \E o \in Ops :
        /\ StringConfig
        /\ FragmentOnly(query[o])
        /\ pc[o] = "done"
        /\ outcome[o] = NextEvent(FetcherResult(o))

====
